---- MODULE Spec2Model ----
(***************************************************************************)
(* Job execution and status propagation of the chat backend:               *)
(*   - MemoryStore (app/storage/memory_store.py): chats, messages, jobs    *)
(*   - job_service / chat_service (app/services)                           *)
(*   - the job runner _run_job and launch_job (app/tasks.py)               *)
(*   - the HTTP handlers of app/routers/jobs.py                            *)
(*   - create_llm_client (app/llm/provider_registry.py)                    *)
(* The job manager (app/services/job_manager.py), the agent registry and   *)
(* the model clients are not part of the sources at hand; the job manager  *)
(* and the registry are modelled from the design document, the model       *)
(* client and the agents are external calls that return or raise.          *)
(*                                                                         *)
(* Everything runs on one asyncio event loop: a coroutine runs without     *)
(* interruption from one suspension point to the next.  Each action below  *)
(* is one such uninterrupted stretch of code.                              *)
(*                                                                         *)
(* Optional values (Python None or a value) are sequences of length at     *)
(* most one: None is << >>, a value v is <<v>>.  This keeps None apart     *)
(* from the empty string.                                                  *)
(* Message.timestamp (datetime.utcnow()) is not modelled: no operation     *)
(* reads it.                                                               *)
(***************************************************************************)
EXTENDS Naturals, Sequences, FiniteSets, TLC

VARIABLES
    chats,      \* MEMORY_STORE.chats: chat id -> Chat
    jobs,       \* MEMORY_STORE.jobs: job id -> Job
    entries,    \* job_manager's records: handle -> {status, logs, result}
    handlers,   \* create_job_for_chat requests: job id -> position and response
    tasks,      \* asyncio tasks running _run_job: job id -> position
    streams,    \* stream_job_events requests, in order of arrival
    loop,       \* the coroutine that holds the event loop between two actions
    last,       \* the outcome of the last request or call that only reads
    normals     \* normal_chat_endpoint requests, in order of arrival

vars == <<chats, jobs, entries, handlers, tasks, streams, loop, last, normals>>

---------------------------------------------------------------------------
(* Bounds of the model *)

MaxChats == 1

MaxJobs == 2

MaxStreams == 1

\* jobs in the specifications that add requests which only read
MaxObservedJobs == 1

\* chats created where jobs of different chats run side by side
MaxWideChats == 2

\* requests of POST /chats/{chat_id}/message
MaxNormalChats == 2

---------------------------------------------------------------------------
(* Optional values *)

None == << >>

Some(v) == <<v>>

\* Python truthiness of an Optional[str]: None and "" are falsy
Truthy(o) == o # None /\ o # Some("")

---------------------------------------------------------------------------
(* Inputs *)

\* POST /chats bodies (ChatCreateRequest): provider, model, agent_id
ChatRequests ==
    { [provider |-> " OpenAI ", model |-> "gpt",  agent_id |-> None],
      [provider |-> "GPT",      model |-> "gpt",  agent_id |-> Some("")],
      [provider |-> "claude",   model |-> "opus", agent_id |-> Some("writer")],
      [provider |-> "openai",   model |-> "gpt",  agent_id |-> Some("ghost")],
      [provider |-> "llama",    model |-> "l3",   agent_id |-> None],
      [provider |-> "llama",    model |-> "l3",   agent_id |-> Some("ghost")],
      [provider |-> "openai",   model |-> "",     agent_id |-> None],
      [provider |-> "",         model |-> "gpt",  agent_id |-> None] }

\* JobCreateRequest.prompt
Prompts == {"Hello"}

\* texts a model client or an agent returns
Texts == {"Hi", "Yo"}

\* str(exc) of the exceptions a model client or an agent raises;
\* str() of an exception built without a message is ""
ExcTexts == {"", "timeout"}

\* AgentResult.output_docx_path
DocxPaths == {None, Some("out.docx")}

\* agent ids the registry knows
RegisteredAgents == {"writer"}

---------------------------------------------------------------------------
(* Identifiers *)

\* MemoryStore.create_chat: f"chat_{uuid4().hex[:12]}", a fresh id
ChatId(n) == <<"chat", n>>

\* MemoryStore.create_job: f"job_{uuid4().hex[:12]}", a fresh id
JobId(n) == <<"job", n>>

\* the handle job_manager.create_job allocates: it is given the metadata only,
\* never the store's job id
EntryId(n) == <<"entry", n>>

---------------------------------------------------------------------------
(* app/llm/provider_registry.py *)

\* provider.strip().lower() on the provider names of ChatRequests
StripLower(p) ==
    CASE p = " OpenAI " -> "openai"
      [] p = "GPT"      -> "gpt"
      [] OTHER          -> p

\* create_llm_client: [ok |-> TRUE] or the ValueError it raises
create_llm_client(provider, model) ==
    IF provider = "" THEN [ok |-> FALSE, exc |-> "LLM provider is required."]
    ELSE IF model = "" THEN [ok |-> FALSE, exc |-> "LLM model is required."]
    ELSE IF StripLower(provider) \in {"openai", "gpt", "chatgpt"} THEN [ok |-> TRUE, exc |-> ""]
    ELSE IF StripLower(provider) \in {"anthropic", "claude"} THEN [ok |-> TRUE, exc |-> ""]
    ELSE [ok |-> FALSE,
          exc |-> "Unknown provider: " \o StripLower(provider) \o ". Supported: openai, anthropic"]

---------------------------------------------------------------------------
(* app/storage/memory_store.py *)

Message(role, content) == [role |-> role, content |-> content]

\* MemoryStore.create_chat
NewChat(req) ==
    [provider |-> req.provider, model |-> req.model, agent_id |-> req.agent_id,
     messages |-> << >>]

\* add_message that assigns the list instead of appending to it
add_message_assign(cs, chat_id, role, content) ==
    [cs EXCEPT ![chat_id].messages = <<Message(role, content)>>]

\* MemoryStore.add_message (the chat exists): append to chat.messages
add_message(cs, chat_id, role, content) ==
    [cs EXCEPT ![chat_id].messages = Append(@, Message(role, content))]

\* MemoryStore.create_job
NewJob(chat_id, prompt, metadata) ==
    [chat_id |-> chat_id, prompt |-> prompt, status |-> "queued", logs |-> << >>,
     result_message |-> None, output_docx_path |-> None, output_payload |-> None,
     error |-> None, metadata |-> metadata]

\* MemoryStore.get_job: the job, or None where the code raises KeyError
get_job(js, job_id) == IF job_id \in DOMAIN js THEN Some(js[job_id]) ELSE None

\* the keyword arguments of MemoryStore.update_job; None is "not supplied"
NoFields ==
    [status |-> None, log |-> None, result_message |-> None,
     output_docx_path |-> None, output_payload |-> None, error |-> None]

\* update_job that assigns the result and error fields whether supplied or not
update_job_overwrite(js, job_id, f) ==
    [js EXCEPT ![job_id] =
        [@ EXCEPT
            !.status = IF f.status # None THEN f.status[1] ELSE @,
            !.logs = IF Truthy(f.log) THEN Append(@, f.log[1]) ELSE @,
            !.result_message = f.result_message,
            !.output_docx_path = f.output_docx_path,
            !.output_payload = f.output_payload,
            !.error = f.error]]

\* update_job seen after its first assignment, as a reader would see it if
\* the update were suspended between two assignments
update_job_status_first(js, job_id, f) ==
    [js EXCEPT ![job_id] =
        [@ EXCEPT !.status = IF f.status # None THEN f.status[1] ELSE @]]

\* MemoryStore.update_job on an existing job: under the store lock, with no
\* suspension inside, so the whole update is one step
update_job(js, job_id, f) ==
    [js EXCEPT ![job_id] =
        [@ EXCEPT
            !.status = IF f.status # None THEN f.status[1] ELSE @,
            !.logs = IF Truthy(f.log) THEN Append(@, f.log[1]) ELSE @,
            !.result_message = IF f.result_message # None THEN f.result_message ELSE @,
            !.output_docx_path = IF f.output_docx_path # None THEN f.output_docx_path ELSE @,
            !.output_payload = IF f.output_payload # None THEN f.output_payload ELSE @,
            !.error = IF f.error # None THEN f.error ELSE @]]

---------------------------------------------------------------------------
(* app/services/job_manager.py, modelled from the design document (4.2) *)

\* createEntry: status queued, empty log sequence, no result
NewEntry == [status |-> "queued", logs |-> << >>, result |-> None]

\* updateEntry(handle, status?, appendLog?, result?): appends a log line
\* and/or overwrites status/result; no failure is specified, so an unknown
\* handle changes nothing
update_entry(es, id, status, log, result) ==
    IF id \in DOMAIN es
    THEN [es EXCEPT ![id] =
            [@ EXCEPT
                !.status = IF status # None THEN status[1] ELSE @,
                !.logs = IF Truthy(log) THEN Append(@, log[1]) ELSE @,
                !.result = IF result # None THEN result ELSE @]]
    ELSE es

\* readEntry: a snapshot, or None for an unknown handle
read_entry(es, id) == IF id \in DOMAIN es THEN Some(es[id]) ELSE None

---------------------------------------------------------------------------
(* app/services/agent_registry.py, modelled from the design document (6) *)

\* resolve(agentId): fails if the id is unknown
get_agent(agent_id) ==
    IF agent_id \in RegisteredAgents
    THEN [ok |-> TRUE, exc |-> ""]
    ELSE [ok |-> FALSE, exc |-> "Unknown agent: " \o agent_id]

---------------------------------------------------------------------------
(* State after construction *)

\* a _run_job coroutine: where it is suspended, the history it sent to the
\* model client, the result it holds for the mirror, the exception it caught
\* or died of, and how many times it has called llm_client.chat or agent.run
NoTask == [pc |-> "none", sent |-> << >>, result |-> None, exc |-> None, calls |-> 0]

Init ==
    /\ chats = << >>
    /\ jobs = << >>
    /\ entries = << >>
    /\ handlers = << >>
    /\ tasks = << >>
    /\ streams = << >>
    /\ loop = None
    /\ last = None
    /\ normals = << >>

\* no coroutine is in the middle of a stretch of code without suspension
LoopFree == loop = None

Extend(f, k, v) == [x \in DOMAIN f \cup {k} |-> IF x = k THEN v ELSE f[x]]

---------------------------------------------------------------------------
(* app/routers/chat.py, app/services/chat_service.py *)

\* POST /chats
create_chat_endpoint(req) ==
    /\ LoopFree
    /\ Cardinality(DOMAIN chats) < MaxChats
    /\ chats' = Extend(chats, ChatId(Cardinality(DOMAIN chats) + 1), NewChat(req))
    /\ UNCHANGED <<jobs, entries, handlers, tasks, streams, loop, last, normals>>

---------------------------------------------------------------------------
(* app/routers/jobs.py: POST /jobs/{chat_id}, app/services/job_service.py *)

\* create_job_for_chat up to the return of "await job_service.create_job":
\* the job is stored, the job manager registers its own entry, and the handle
\* that job_manager.create_job returns is dropped
create_job(chat_id, prompt) ==
    /\ LoopFree
    /\ chat_id \in DOMAIN chats
    /\ Cardinality(DOMAIN jobs) < MaxJobs
    /\ LET n == Cardinality(DOMAIN jobs) + 1
           md == [chat_id |-> chat_id, agent_id |-> chats[chat_id].agent_id]
       IN /\ jobs' = Extend(jobs, JobId(n), NewJob(chat_id, prompt, md))
          /\ entries' = Extend(entries, EntryId(Cardinality(DOMAIN entries) + 1), NewEntry)
          /\ handlers' = Extend(handlers, JobId(n), [pc |-> "created", response |-> None])
          /\ tasks' = Extend(tasks, JobId(n), NoTask)
    /\ UNCHANGED <<chats, streams, loop, last, normals>>

\* launch_job that starts the coroutine at once, as awaiting it would
launch_job_inline(ts, job_id) == [ts EXCEPT ![job_id].pc = "try"]

\* launch_job: its only caller is a coroutine of the server's loop, so
\* get_running_loop() succeeds and loop.create_task(_run_job(job_id)) schedules
\* the coroutine without running any of it (the asyncio.run branch is not
\* reached)
launch_job(ts, job_id) == [ts EXCEPT ![job_id].pc = "scheduled"]

\* create_job_for_chat: job_service.start_job(job.id)
start_job(job_id) ==
    /\ LoopFree
    /\ job_id \in DOMAIN handlers
    /\ handlers[job_id].pc = "created"
    /\ tasks' = launch_job(tasks, job_id)
    /\ handlers' = [handlers EXCEPT ![job_id].pc = "launched"]
    /\ loop' = Some(job_id)
    /\ UNCHANGED <<chats, jobs, entries, streams, last, normals>>

\* JobResponse built from a Job
JobResponse(job_id, job) ==
    [job_id |-> job_id, chat_id |-> job.chat_id, status |-> job.status,
     result_message |-> job.result_message,
     output_docx_url |-> IF Truthy(job.output_docx_path) THEN Some(<<"/jobs", job_id, "docx">>) ELSE None,
     error |-> job.error]

\* create_job_for_chat: return JobResponse(...), with no suspension since
\* start_job
create_job_for_chat_return(job_id) ==
    /\ loop = Some(job_id)
    /\ handlers[job_id].pc = "launched"
    /\ handlers' = [handlers EXCEPT ![job_id] =
                        [pc |-> "responded", response |-> Some(JobResponse(job_id, jobs[job_id]))]]
    /\ loop' = None
    /\ UNCHANGED <<chats, jobs, entries, tasks, streams, last, normals>>

---------------------------------------------------------------------------
(* app/tasks.py: _run_job *)

\* lines 29-38: load job and chat, create the client, mark the mirror
\* running.  All of it is outside the try block: a ValueError of
\* create_llm_client leaves the coroutine.
run_job_start(job_id) ==
    /\ LoopFree
    /\ job_id \in DOMAIN tasks
    /\ tasks[job_id].pc = "scheduled"
    /\ LET chat == chats[jobs[job_id].chat_id]
           client == create_llm_client(chat.provider, chat.model)
       IN IF ~client.ok
          THEN /\ tasks' = [tasks EXCEPT ![job_id].pc = "raised",
                                         ![job_id].exc = Some(client.exc)]
               /\ UNCHANGED entries
          ELSE /\ entries' = update_entry(entries, job_id, Some("running"), Some("Job started"), None)
               /\ tasks' = [tasks EXCEPT ![job_id].pc = "try"]
    /\ UNCHANGED <<chats, jobs, handlers, streams, loop, last, normals>>

\* lines 117-125: except Exception as exc: MEMORY_STORE.update_job(failed)
Failed(js, job_id, exc) ==
    update_job(js, job_id,
        [NoFields EXCEPT !.status = Some("failed"),
                         !.log = Some("Job failed: " \o exc),
                         !.error = Some(exc)])

\* lines 41-56 and 82-90: the mode is chosen and the external call issued;
\* an unknown agent raises inside the try block
run_job_dispatch(job_id) ==
    /\ LoopFree
    /\ job_id \in DOMAIN tasks
    /\ tasks[job_id].pc = "try"
    /\ LET job == jobs[job_id]
           chat == chats[job.chat_id]
       IN IF ~Truthy(chat.agent_id)
          THEN /\ tasks' = [tasks EXCEPT
                              ![job_id].pc = "llm",
                              ![job_id].calls = @ + 1,
                              ![job_id].sent = Append(chat.messages, Message("user", job.prompt))]
               /\ UNCHANGED jobs
          ELSE IF get_agent(chat.agent_id[1]).ok
          THEN /\ tasks' = [tasks EXCEPT ![job_id].pc = "agent", ![job_id].calls = @ + 1]
               /\ UNCHANGED jobs
          ELSE /\ jobs' = Failed(jobs, job_id, get_agent(chat.agent_id[1]).exc)
               /\ tasks' = [tasks EXCEPT ![job_id].pc = "mirror_failed",
                                         ![job_id].exc = Some(get_agent(chat.agent_id[1]).exc)]
    /\ UNCHANGED <<chats, entries, handlers, streams, loop, last, normals>>

\* lines 56-69: llm_client.chat returned: the assistant message is appended
\* and the store is set to completed
llm_return(job_id, text) ==
    /\ LoopFree
    /\ job_id \in DOMAIN tasks
    /\ tasks[job_id].pc = "llm"
    /\ chats' = add_message(chats, jobs[job_id].chat_id, "assistant", text)
    /\ jobs' = update_job(jobs, job_id,
                  [NoFields EXCEPT !.status = Some("completed"),
                                   !.log = Some("Normal chat completed"),
                                   !.result_message = Some(text),
                                   !.output_payload = Some([text |-> text])])
    /\ tasks' = [tasks EXCEPT ![job_id].pc = "mirror_completed",
                              ![job_id].result = Some([text |-> text])]
    /\ UNCHANGED <<entries, handlers, streams, loop, last, normals>>

\* lines 85-105: agent.run returned
agent_return(job_id, text, docx) ==
    /\ LoopFree
    /\ job_id \in DOMAIN tasks
    /\ tasks[job_id].pc = "agent"
    /\ chats' = add_message(chats, jobs[job_id].chat_id, "assistant", text)
    /\ jobs' = update_job(jobs, job_id,
                  [NoFields EXCEPT !.status = Some("completed"),
                                   !.log = Some("Agent job completed"),
                                   !.result_message = Some(text),
                                   !.output_docx_path = docx,
                                   !.output_payload =
                                       Some([text |-> text, output_docx_path |-> docx])])
    /\ tasks' = [tasks EXCEPT ![job_id].pc = "mirror_completed",
                              ![job_id].result =
                                  Some([text |-> text, output_docx_path |-> docx])]
    /\ UNCHANGED <<entries, handlers, streams, loop, last, normals>>

\* an except block that issued the call again after a failure
external_raise_retry(job_id, exc) ==
    /\ LoopFree
    /\ job_id \in DOMAIN tasks
    /\ tasks[job_id].pc \in {"llm", "agent"}
    /\ jobs' = Failed(jobs, job_id, exc)
    /\ tasks' = [tasks EXCEPT ![job_id].pc = IF tasks[job_id].calls < 2 THEN "try" ELSE "mirror_failed",
                              ![job_id].exc = Some(exc)]
    /\ UNCHANGED <<chats, entries, handlers, streams, loop, last, normals>>

\* lines 117-125: llm_client.chat or agent.run raised
external_raise(job_id, exc) ==
    /\ LoopFree
    /\ job_id \in DOMAIN tasks
    /\ tasks[job_id].pc \in {"llm", "agent"}
    /\ jobs' = Failed(jobs, job_id, exc)
    /\ tasks' = [tasks EXCEPT ![job_id].pc = "mirror_failed", ![job_id].exc = Some(exc)]
    /\ UNCHANGED <<chats, entries, handlers, streams, loop, last, normals>>

\* lines 71-77, 107-115 and 126-131: the job manager's copy follows the store
run_job_mirror(job_id) ==
    /\ LoopFree
    /\ job_id \in DOMAIN tasks
    /\ tasks[job_id].pc \in {"mirror_completed", "mirror_failed"}
    /\ LET t == tasks[job_id]
           agent == Truthy(chats[jobs[job_id].chat_id].agent_id)
       IN entries' =
            IF t.pc = "mirror_completed"
            THEN update_entry(entries, job_id, Some("completed"),
                     Some(IF agent THEN "Agent job completed" ELSE "Normal chat completed"),
                     t.result)
            ELSE update_entry(entries, job_id, Some("failed"),
                     Some("Job failed: " \o t.exc[1]), None)
    /\ tasks' = [tasks EXCEPT ![job_id].pc = "done"]
    /\ UNCHANGED <<chats, jobs, handlers, streams, loop, last, normals>>

---------------------------------------------------------------------------
(* app/routers/jobs.py: GET /jobs/{job_id}/events *)

\* the identifiers a client asks for: jobs, job manager handles, and one
\* identifier nothing was created under
Requested == DOMAIN jobs \cup DOMAIN entries \cup {JobId(0)}

\* stream_job_events: the handler checks nothing and returns the
\* StreamingResponse, which the server starts to send before it asks
\* event_generator for its first event
stream_job_events(id) ==
    /\ LoopFree
    /\ Len(streams) < MaxStreams
    /\ id \in Requested
    /\ streams' = Append(streams,
                    [job_id |-> id, response |-> "streaming", pc |-> "started",
                     last_len |-> 0, events |-> << >>])
    /\ UNCHANGED <<chats, jobs, entries, handlers, tasks, loop, last, normals>>

\* the events of one pass of the loop of event_generator over a snapshot: the
\* log lines beyond last_len, then the terminal event if the status is terminal
PassEvents(state, last_len) ==
    [i \in 1..(Len(state.logs) - last_len) |-> [line |-> state.logs[last_len + i]]]
    \o (IF state.status \in {"completed", "failed"}
        THEN <<[status |-> state.status, result |-> state.result]>>
        ELSE << >>)

\* event_generator that takes the lines it emits out of the entry it read
event_generator_consume(s) ==
    /\ LoopFree
    /\ s \in DOMAIN streams
    /\ streams[s].pc \in {"started", "polling"}
    /\ LET st == streams[s]
           state == read_entry(entries, st.job_id)
       IN /\ streams' =
               IF state = None
               THEN [streams EXCEPT ![s].pc = "not_found"]
               ELSE [streams EXCEPT
                       ![s].events = @ \o PassEvents(state[1], st.last_len),
                       ![s].pc = IF state[1].status \in {"completed", "failed"}
                                 THEN "closed" ELSE "polling"]
          /\ entries' =
               IF state = None
               THEN entries
               ELSE [entries EXCEPT ![st.job_id].logs = << >>,
                                    ![st.job_id].status = "running"]
    /\ UNCHANGED <<chats, jobs, handlers, tasks, loop, last, normals>>

\* event_generator, one pass of "while True": read the entry, raise
\* HTTPException(404) if there is none, yield the new lines, yield the
\* terminal event and stop, or sleep.  The pass works on the snapshot it
\* read, so what it yields is fixed when it reads.
event_generator(s) ==
    /\ LoopFree
    /\ s \in DOMAIN streams
    /\ streams[s].pc \in {"started", "polling"}
    /\ LET st == streams[s]
           state == read_entry(entries, st.job_id)
       IN streams' =
            IF state = None
            THEN [streams EXCEPT ![s].pc = "not_found"]
            ELSE [streams EXCEPT
                    ![s].events = @ \o PassEvents(state[1], st.last_len),
                    ![s].last_len = IF Len(state[1].logs) > @ THEN Len(state[1].logs) ELSE @,
                    ![s].pc = IF state[1].status \in {"completed", "failed"}
                              THEN "closed" ELSE "polling"]
    /\ UNCHANGED <<chats, jobs, entries, handlers, tasks, loop, last, normals>>

\* the stream is cancelled: the client disconnects and the generator is
\* closed where it is suspended (a yield or the sleep)
stream_cancel(s) ==
    /\ LoopFree
    /\ s \in DOMAIN streams
    /\ streams[s].pc \in {"started", "polling"}
    /\ streams' = [streams EXCEPT ![s].pc = "cancelled"]
    /\ UNCHANGED <<chats, jobs, entries, handlers, tasks, loop, last, normals>>

---------------------------------------------------------------------------
(* app/routers/jobs.py: GET /jobs/{job_id} and GET /jobs/{job_id}/docx *)

\* the job identifiers a client asks for
RequestedJobs == DOMAIN jobs \cup {JobId(0)}

\* get_job_status: 404 for an unknown job, else the JobResponse of the job as
\* it is now; the store lock is not taken
get_job_status(id) ==
    /\ LoopFree
    /\ id \in RequestedJobs
    /\ last' = Some([request |-> "get_job_status", job_id |-> id,
                     code |-> IF get_job(jobs, id) = None THEN 404 ELSE 200,
                     body |-> IF get_job(jobs, id) = None THEN None
                              ELSE Some(JobResponse(id, get_job(jobs, id)[1]))])
    /\ UNCHANGED <<chats, jobs, entries, handlers, tasks, streams, loop, normals>>

\* download_job_docx that serves every completed job
DocxReply_completed(job, on_disk) ==
    IF job = None THEN [code |-> 404, detail |-> "Job not found"]
    ELSE IF job[1].status # "completed"
    THEN [code |-> 404, detail |-> "No DOCX generated for this job"]
    ELSE IF ~on_disk THEN [code |-> 404, detail |-> "DOCX file not found"]
    ELSE [code |-> 200, detail |-> "file"]

\* download_job_docx: the three 404 answers, or the FileResponse; job is the
\* result of get_job, on_disk that of Path(job.output_docx_path).exists()
DocxReply(job, on_disk) ==
    IF job = None THEN [code |-> 404, detail |-> "Job not found"]
    ELSE IF ~Truthy(job[1].output_docx_path)
    THEN [code |-> 404, detail |-> "No DOCX generated for this job"]
    ELSE IF ~on_disk THEN [code |-> 404, detail |-> "DOCX file not found"]
    ELSE [code |-> 200, detail |-> "file"]

download_job_docx(id, on_disk) ==
    /\ LoopFree
    /\ id \in RequestedJobs
    /\ last' = Some([request |-> "download_job_docx", job_id |-> id, on_disk |-> on_disk,
                     code |-> DocxReply(get_job(jobs, id), on_disk).code,
                     detail |-> DocxReply(get_job(jobs, id), on_disk).detail])
    /\ UNCHANGED <<chats, jobs, entries, handlers, tasks, streams, loop, normals>>

\* keyword arguments of calls of MemoryStore.update_job: those _run_job makes
\* and others with one field, an empty log line, or nothing supplied
UpdateCalls ==
    { NoFields,
      [NoFields EXCEPT !.status = Some("running")],
      [NoFields EXCEPT !.log = Some("line")],
      [NoFields EXCEPT !.log = Some("")],
      [NoFields EXCEPT !.output_docx_path = Some("out.docx")],
      [NoFields EXCEPT !.status = Some("running"), !.log = Some("Job started")],
      [NoFields EXCEPT !.status = Some("completed"), !.log = Some("Normal chat completed"),
                       !.result_message = Some("Hi"), !.output_payload = Some([text |-> "Hi"])],
      [NoFields EXCEPT !.status = Some("failed"), !.log = Some("Job failed: timeout"),
                       !.error = Some("timeout")],
      [NoFields EXCEPT !.status = Some("failed"), !.log = Some("Job failed: "),
                       !.error = Some("")] }

\* one call of MemoryStore.update_job on the store as it is, kept apart from
\* the store: the jobs before and after the call, or the KeyError of get_job
update_job_call(id, f) ==
    /\ LoopFree
    /\ id \in RequestedJobs
    /\ f \in UpdateCalls
    /\ last' = Some([request |-> "update_job", job_id |-> id, fields |-> f,
                     raised |-> get_job(jobs, id) = None,
                     before |-> jobs,
                     after |-> IF get_job(jobs, id) = None THEN jobs
                               ELSE update_job(jobs, id, f)])
    /\ UNCHANGED <<chats, jobs, entries, handlers, tasks, streams, loop, normals>>

---------------------------------------------------------------------------

Next ==
    \/ \E req \in ChatRequests : create_chat_endpoint(req)
    \/ \E c \in DOMAIN chats, p \in Prompts : create_job(c, p)
    \/ \E j \in DOMAIN jobs : start_job(j)
    \/ \E j \in DOMAIN jobs : create_job_for_chat_return(j)
    \/ \E j \in DOMAIN jobs : run_job_start(j)
    \/ \E j \in DOMAIN jobs : run_job_dispatch(j)
    \/ \E j \in DOMAIN jobs, t \in Texts : llm_return(j, t)
    \/ \E j \in DOMAIN jobs, t \in Texts, d \in DocxPaths : agent_return(j, t, d)
    \/ \E j \in DOMAIN jobs, e \in ExcTexts : external_raise(j, e)
    \/ \E j \in DOMAIN jobs : run_job_mirror(j)
    \/ \E id \in Requested : stream_job_events(id)
    \/ \E s \in DOMAIN streams : event_generator(s)
    \/ \E s \in DOMAIN streams : stream_cancel(s)
    \/ \E id \in RequestedJobs : get_job_status(id)
    \/ \E id \in RequestedJobs, d \in BOOLEAN : download_job_docx(id, d)

Spec == Init /\ [][Next]_vars

\* the requests and runs that write: everything but the streams, which only
\* read
NextRun ==
    \/ \E req \in ChatRequests : create_chat_endpoint(req)
    \/ \E c \in DOMAIN chats, p \in Prompts : create_job(c, p)
    \/ \E j \in DOMAIN jobs : start_job(j)
    \/ \E j \in DOMAIN jobs : create_job_for_chat_return(j)
    \/ \E j \in DOMAIN jobs : run_job_start(j)
    \/ \E j \in DOMAIN jobs : run_job_dispatch(j)
    \/ \E j \in DOMAIN jobs, t \in Texts : llm_return(j, t)
    \/ \E j \in DOMAIN jobs, t \in Texts, d \in DocxPaths : agent_return(j, t, d)
    \/ \E j \in DOMAIN jobs, e \in ExcTexts : external_raise(j, e)
    \/ \E j \in DOMAIN jobs : run_job_mirror(j)

RunSpec == Init /\ [][NextRun]_vars

\* the runs of a few jobs, and the requests that read a job
NextRead ==
    \/ NextRun /\ Cardinality(DOMAIN jobs') <= MaxObservedJobs
    \/ \E id \in RequestedJobs : get_job_status(id)
    \/ \E id \in RequestedJobs, d \in BOOLEAN : download_job_docx(id, d)

ReadSpec == Init /\ [][NextRead]_vars

\* the runs of a few jobs, and one call of MemoryStore.update_job on the
\* store they have reached
NextUpdate ==
    /\ last = None
    /\ \/ NextRun /\ Cardinality(DOMAIN jobs') <= MaxObservedJobs
       \/ \E id \in RequestedJobs, f \in UpdateCalls : update_job_call(id, f)

UpdateSpec == Init /\ [][NextUpdate]_vars

---------------------------------------------------------------------------
(* app/routers/chat.py: POST /chats/{chat_id}/message,                     *)
(* app/services/chat_service.py: run_normal_chat                           *)

\* the chat identifiers a client asks for
RequestedChats == DOMAIN chats \cup {ChatId(0)}

\* normal_chat_endpoint and run_normal_chat up to "await llm.chat(history)":
\* KeyError for an unknown chat, 400 for a chat with an agent, the ValueError
\* of create_llm_client, or the call issued with the history and the prompt
NormalRequest(cs, chat_id, prompt) ==
    LET none == [chat_id |-> chat_id, prompt |-> prompt, pc |-> "not_found",
                 sent |-> << >>, reply |-> None, exc |-> None]
    IN IF chat_id \notin DOMAIN cs
       THEN none
       ELSE IF Truthy(cs[chat_id].agent_id)
       THEN [none EXCEPT !.pc = "rejected"]
       ELSE IF ~create_llm_client(cs[chat_id].provider, cs[chat_id].model).ok
       THEN [none EXCEPT !.pc = "raised",
                         !.exc = Some(create_llm_client(cs[chat_id].provider, cs[chat_id].model).exc)]
       ELSE [none EXCEPT !.pc = "llm",
                         !.sent = Append(cs[chat_id].messages, Message("user", prompt))]

\* normal_chat_endpoint that saves the user message before the model call
normal_chat_endpoint_eager(chat_id, prompt) ==
    /\ LoopFree
    /\ Len(normals) < MaxNormalChats
    /\ chat_id \in RequestedChats
    /\ normals' = Append(normals, NormalRequest(chats, chat_id, prompt))
    /\ chats' = IF NormalRequest(chats, chat_id, prompt).pc = "llm"
                THEN add_message(chats, chat_id, "user", prompt)
                ELSE chats
    /\ UNCHANGED <<jobs, entries, handlers, tasks, streams, loop, last>>

\* normal_chat_endpoint, lines 40-50, and run_normal_chat, lines 27-37
normal_chat_endpoint(chat_id, prompt) ==
    /\ LoopFree
    /\ Len(normals) < MaxNormalChats
    /\ chat_id \in RequestedChats
    /\ normals' = Append(normals, NormalRequest(chats, chat_id, prompt))
    /\ UNCHANGED <<chats, jobs, entries, handlers, tasks, streams, loop, last>>

\* run_normal_chat, lines 37-45: llm.chat returned; the user message and the
\* reply are appended with no suspension between the two
normal_chat_return(n, text) ==
    /\ LoopFree
    /\ n \in DOMAIN normals
    /\ normals[n].pc = "llm"
    /\ chats' = add_message(
                    add_message(chats, normals[n].chat_id, "user", normals[n].prompt),
                    normals[n].chat_id, "assistant", text)
    /\ normals' = [normals EXCEPT ![n].pc = "done", ![n].reply = Some(text)]
    /\ UNCHANGED <<jobs, entries, handlers, tasks, streams, loop, last>>

\* run_normal_chat, line 37: llm.chat raised; nothing catches it
normal_chat_raise(n, exc) ==
    /\ LoopFree
    /\ n \in DOMAIN normals
    /\ normals[n].pc = "llm"
    /\ normals' = [normals EXCEPT ![n].pc = "raised", ![n].exc = Some(exc)]
    /\ UNCHANGED <<chats, jobs, entries, handlers, tasks, streams, loop, last>>

\* the run of the first job of the first chat, and the direct chats on it
NextChat ==
    \/ NextRun /\ DOMAIN jobs' \subseteq {JobId(1)} /\ DOMAIN chats' \subseteq {ChatId(1)}
    \/ \E c \in RequestedChats, p \in Prompts : normal_chat_endpoint(c, p)
    \/ \E n \in DOMAIN normals, t \in Texts : normal_chat_return(n, t)
    \/ \E n \in DOMAIN normals, e \in ExcTexts : normal_chat_raise(n, e)

ChatSpec == Init /\ [][NextChat]_vars

\* POST /chat again, for jobs of different chats running side by side
create_chat_endpoint_wide(req) ==
    /\ LoopFree
    /\ Cardinality(DOMAIN chats) < MaxWideChats
    /\ chats' = Extend(chats, ChatId(Cardinality(DOMAIN chats) + 1), NewChat(req))
    /\ UNCHANGED <<jobs, entries, handlers, tasks, streams, loop, last, normals>>

NextWide ==
    \/ NextRun
    \/ \E req \in ChatRequests : create_chat_endpoint_wide(req)

AllJobs == {JobId(n) : n \in 1..MaxJobs}

\* the job whose external calls are answered; the calls of the others may
\* never return
Answered == JobId(2)

\* the event loop runs every coroutine that is ready: a handler or a task
\* that can take its next step takes it
LoopFair ==
    \A k \in AllJobs :
        /\ WF_vars(start_job(k))
        /\ WF_vars(create_job_for_chat_return(k))
        /\ WF_vars(run_job_start(k))
        /\ WF_vars(run_job_dispatch(k))
        /\ WF_vars(run_job_mirror(k))

\* llm_client.chat or agent.run of the answered job returns or raises
external_answer(k) ==
    \/ \E t \in Texts : llm_return(k, t)
    \/ \E t \in Texts, d \in DocxPaths : agent_return(k, t, d)
    \/ \E e \in ExcTexts : external_raise(k, e)

FairWideSpec == Init /\ [][NextWide]_vars /\ LoopFair /\ WF_vars(external_answer(Answered))

\* the runs of a few jobs of the first chat, and the streams opened on them
NextStream ==
    \/ NextRun /\ Cardinality(DOMAIN jobs') <= MaxObservedJobs /\ DOMAIN chats' \subseteq {ChatId(1)}
    \/ \E id \in Requested : stream_job_events(id)
    \/ \E s \in DOMAIN streams : event_generator(s)
    \/ \E s \in DOMAIN streams : stream_cancel(s)

StreamSpec == Init /\ [][NextStream]_vars

---------------------------------------------------------------------------
(* Definitions shared by the properties *)

Terminal == {"completed", "failed"}

\* the run of the job has ended: it returned or an exception left it
Ended(j) == tasks[j].pc \in {"done", "raised"}

ChatOf(j) == chats[jobs[j].chat_id]

JobsOf(c) == {j \in DOMAIN jobs : jobs[j].chat_id = c}

DirectChat(j) == ~Truthy(ChatOf(j).agent_id)

\* the external call of the run has returned a result
Returned(j) == tasks[j].result # None

---------------------------------------------------------------------------
(* C1: the status of a stored job starts at queued and changes only along  *)
(* queued -> running -> completed | failed; a terminal status never        *)
(* changes, so at most one terminal branch is applied to a job.            *)

LegalStep == {<<"queued", "running">>, <<"running", "completed">>, <<"running", "failed">>}

C1_StatusLifecycle ==
    [][\A j \in DOMAIN jobs' :
         /\ j \notin DOMAIN jobs => jobs'[j].status = "queued"
         /\ (j \in DOMAIN jobs /\ jobs'[j].status # jobs[j].status)
               => <<jobs[j].status, jobs'[j].status>> \in LegalStep]_vars

(* C2: a failed job has a non-empty error and no result_message and no     *)
(* output_payload; result fields are set only on a completed job and error *)
(* only on a failed job.                                                   *)

C2_FailedHasErrorOnly ==
    \A j \in DOMAIN jobs :
        /\ jobs[j].status = "failed" =>
              /\ Truthy(jobs[j].error)
              /\ jobs[j].result_message = None
              /\ jobs[j].output_payload = None
        /\ (jobs[j].result_message # None \/ jobs[j].output_payload # None
               \/ jobs[j].output_docx_path # None) => jobs[j].status = "completed"
        /\ jobs[j].error # None => jobs[j].status = "failed"

(* C3: a completed direct-chat job has appended two messages to its chat,  *)
(* the user message with its prompt and then the assistant message with    *)
(* the returned text; when it is the only job of the chat the messages are *)
(* exactly these two.                                                      *)

C3_UserThenAssistant ==
    \A j \in DOMAIN jobs :
        (DirectChat(j) /\ jobs[j].status = "completed") =>
            LET ms == ChatOf(j).messages
                u == Message("user", jobs[j].prompt)
                a == Message("assistant", jobs[j].result_message[1])
            IN /\ \E i \in DOMAIN ms, k \in DOMAIN ms : i < k /\ ms[i] = u /\ ms[k] = a
               /\ JobsOf(jobs[j].chat_id) = {j} => ms = <<u, a>>

(* C4: the events of a stream for a job are the log lines of the stored    *)
(* job, each once and in order, and a stream that has ended has emitted    *)
(* all of them followed by exactly one terminal event.                     *)

LineEvents(logs) == [i \in 1..Len(logs) |-> [line |-> logs[i]]]

C4_StreamIsJobLog ==
    \A s \in DOMAIN streams :
        streams[s].job_id \in DOMAIN jobs =>
            LET job == jobs[streams[s].job_id]
                ev == streams[s].events
            IN IF streams[s].pc \in {"closed", "not_found"}
               THEN /\ Len(ev) = Len(job.logs) + 1
                    /\ SubSeq(ev, 1, Len(job.logs)) = LineEvents(job.logs)
                    /\ ev[Len(ev)].status = job.status
                    /\ job.status \in Terminal
               ELSE /\ Len(ev) <= Len(job.logs)
                    /\ ev = SubSeq(LineEvents(job.logs), 1, Len(ev))

(* C5: a failure raised in a run (loading, creating the model client,      *)
(* marking running, the call, agent resolution, writing the completion)    *)
(* sets the job to failed, records the description as a log line and as    *)
(* the error, and does not leave the run.                                  *)

C5_FailureIsRecorded ==
    \A j \in DOMAIN tasks :
        tasks[j].exc # None =>
            /\ tasks[j].pc # "raised"
            /\ jobs[j].status = "failed"
            /\ jobs[j].error = tasks[j].exc
            /\ \E i \in DOMAIN jobs[j].logs :
                  jobs[j].logs[i] = "Job failed: " \o tasks[j].exc[1]

(* C6: a launched job reaches a terminal status; a run that has ended has  *)
(* left its job completed or failed, never queued or running.              *)

C6_EndedIsTerminal ==
    \A j \in DOMAIN tasks : Ended(j) => jobs[j].status \in Terminal

(* C7: the run of a job whose chat names an agent that is not registered   *)
(* ends with the job failed with a non-empty error, and the chat has no    *)
(* message appended.                                                       *)

UnknownAgent(j) ==
    /\ Truthy(ChatOf(j).agent_id)
    /\ ChatOf(j).agent_id[1] \notin RegisteredAgents

C7_UnknownAgentFails ==
    \A j \in DOMAIN tasks :
        UnknownAgent(j) =>
            /\ ChatOf(j).messages = << >>
            /\ Ended(j) => (jobs[j].status = "failed" /\ Truthy(jobs[j].error))

(* C8: jobs that run concurrently on one chat lose no message: every job   *)
(* whose call returned is completed and its reply is in the chat, and the  *)
(* chat holds as many messages as the jobs contributed, one per returned   *)
(* call.                                                                   *)

C8_NoLostMessage ==
    \A c \in DOMAIN chats :
        LET done == {j \in JobsOf(c) : Returned(j)}
            ms == chats[c].messages
        IN /\ Len(ms) = Cardinality(done)
           /\ \A j \in done :
                 /\ jobs[j].status = "completed"
                 /\ \E i \in DOMAIN ms :
                       ms[i] = Message("assistant", jobs[j].result_message[1])

\* two jobs of one chat were both in flight with an empty history, returned
\* different texts, and both are completed
C8_Witness ==
    \E c \in DOMAIN chats :
        \E j1 \in JobsOf(c), j2 \in JobsOf(c) :
            /\ j1 # j2
            /\ jobs[j1].status = "completed" /\ jobs[j2].status = "completed"
            /\ Len(tasks[j1].sent) = 1 /\ Len(tasks[j2].sent) = 1
            /\ jobs[j1].result_message # jobs[j2].result_message
            /\ Ended(j1) /\ Ended(j2)
            /\ Len(chats[c].messages) = 2

(* C9: create_job_for_chat answers with status queued without awaiting the *)
(* run: no step of the run is taken before the response is built, and the  *)
(* handler can return whatever the run does.                               *)

C9_ResponseBeforeRun ==
    \A j \in DOMAIN handlers :
        /\ tasks[j].pc \notin {"none", "scheduled"} => handlers[j].pc = "responded"
        /\ handlers[j].pc = "launched" => ENABLED create_job_for_chat_return(j)
        /\ handlers[j].pc = "responded" =>
              /\ handlers[j].response[1].job_id = j
              /\ handlers[j].response[1].status = "queued"
              /\ handlers[j].response[1].result_message = None
              /\ handlers[j].response[1].error = None

\* a response was given and the run went on to complete the job afterwards
C9_Witness ==
    \E j \in DOMAIN handlers :
        /\ handlers[j].pc = "responded"
        /\ handlers[j].response[1].status = "queued"
        /\ jobs[j].status = "completed"
        /\ Ended(j)

(* C10: a stream requested for an identifier without an entry fails with   *)
(* NotFound before the streaming response has begun and before any event.  *)

C10_NotFoundBeforeStream ==
    \A s \in DOMAIN streams :
        streams[s].pc = "not_found" =>
            /\ streams[s].response # "streaming"
            /\ streams[s].events = << >>

(* C11: the download of a job's artifact answers NotFound whenever the job *)
(* does not exist, has no output_docx_path, or the file is not on disk;    *)
(* queued, running, failed and direct-chat jobs never have a path; the     *)
(* request never changes a job.                                            *)

NoDocxWhereNone(js, cs) ==
    \A j \in DOMAIN js :
        (js[j].status \in {"queued", "running", "failed"} \/ ~Truthy(cs[js[j].chat_id].agent_id))
            => js[j].output_docx_path = None

IsDownload(l) == l # None /\ l[1].request = "download_job_docx"

C11_DownloadNotFound ==
    [][/\ NoDocxWhereNone(jobs, chats)
       /\ NoDocxWhereNone(jobs', chats')
       /\ (IsDownload(last') /\ last' # last) =>
            /\ jobs' = jobs
            /\ last'[1].code \in {200, 404}
            /\ last'[1].code = 404 <=>
                  \/ last'[1].job_id \notin DOMAIN jobs
                  \/ ~Truthy(jobs[last'[1].job_id].output_docx_path)
                  \/ ~last'[1].on_disk]_vars

\* the download of a completed direct-chat job, file or no file, was answered
\* NotFound
C11_Witness ==
    /\ IsDownload(last)
    /\ last[1].code = 404
    /\ last[1].on_disk
    /\ last[1].job_id \in DOMAIN jobs
    /\ jobs[last[1].job_id].status = "completed"
    /\ DirectChat(last[1].job_id)

(* C12: MemoryStore.update_job changes only the fields supplied and leaves *)
(* the other fields of the job and every other job unchanged; logs grow by *)
(* at most the supplied line, appended at the end; a call for an absent    *)
(* job id raises and leaves the store unchanged.                           *)

IsUpdate(l) == l # None /\ l[1].request = "update_job"

\* field x of the job is as before unless the call supplied it
Kept(a, b, f) ==
    /\ f.status = None => a.status = b.status
    /\ f.result_message = None => a.result_message = b.result_message
    /\ f.output_docx_path = None => a.output_docx_path = b.output_docx_path
    /\ f.output_payload = None => a.output_payload = b.output_payload
    /\ f.error = None => a.error = b.error
    /\ a.chat_id = b.chat_id /\ a.prompt = b.prompt /\ a.metadata = b.metadata
    /\ \/ a.logs = b.logs
       \/ f.log # None /\ a.logs = Append(b.logs, f.log[1])

C12_UpdateFrame ==
    IsUpdate(last) =>
        LET r == last[1]
        IN /\ r.raised <=> r.job_id \notin DOMAIN r.before
           /\ r.raised => r.after = r.before
           /\ ~r.raised =>
                /\ DOMAIN r.after = DOMAIN r.before
                /\ \A j \in DOMAIN r.before : j # r.job_id => r.after[j] = r.before[j]
                /\ Kept(r.after[r.job_id], r.before[r.job_id], r.fields)

\* a call that supplied only a log line on a completed job: the line is
\* appended and the result is kept
C12_Witness ==
    /\ IsUpdate(last)
    /\ ~last[1].raised
    /\ last[1].fields = [NoFields EXCEPT !.log = Some("line")]
    /\ last[1].before[last[1].job_id].status = "completed"
    /\ last[1].after[last[1].job_id].result_message # None
    /\ Len(last[1].after[last[1].job_id].logs) = 2

(* C13: once the run has marked the job running and until its model or     *)
(* agent call has returned, the stored job and its job manager entry both  *)
(* have status running and the log line "Job started", and a reader of     *)
(* the job by id sees status running.                                      *)

HasLine(logs, line) == \E i \in DOMAIN logs : logs[i] = line

C13_RunningWhileCalling ==
    \A j \in DOMAIN tasks :
        tasks[j].pc \in {"try", "llm", "agent"} =>
            /\ jobs[j].status = "running"
            /\ HasLine(jobs[j].logs, "Job started")
            /\ JobResponse(j, get_job(jobs, j)[1]).status = "running"
            /\ read_entry(entries, j) # None
            /\ read_entry(entries, j)[1].status = "running"
            /\ HasLine(read_entry(entries, j)[1].logs, "Job started")

(* C14: whenever the run is not between two paired writes, the job         *)
(* manager entry of a job has the status and the log lines of the stored   *)
(* job, in the same order; so have the two when the run has ended.         *)

C14_MirrorFollowsStore ==
    \A j \in DOMAIN tasks :
        tasks[j].pc \notin {"mirror_completed", "mirror_failed"} =>
            /\ read_entry(entries, j) # None
            /\ read_entry(entries, j)[1].status = jobs[j].status
            /\ read_entry(entries, j)[1].logs = jobs[j].logs

(* C15: every job made by job_service.create_job has a job manager entry   *)
(* under the identifier of the stored job, created with status queued,     *)
(* empty logs and no result.                                               *)

C15_EntryUnderJobId ==
    \A j \in DOMAIN jobs :
        /\ read_entry(entries, j) # None
        /\ tasks[j].pc \in {"none", "scheduled"} => read_entry(entries, j) = Some(NewEntry)

(* C16: a completed job has the returned text as result_message and in     *)
(* output_payload (with the job's output_docx_path in agent mode), the     *)
(* chat holds an assistant message with that text, and once the run has    *)
(* ended the job manager entry's result carries that text.                 *)

C16_ResultEverywhere ==
    \A j \in DOMAIN jobs :
        jobs[j].status = "completed" =>
            LET text == tasks[j].result[1].text
            IN /\ jobs[j].result_message = Some(text)
               /\ jobs[j].output_payload # None
               /\ jobs[j].output_payload[1].text = text
               /\ ~DirectChat(j) =>
                     jobs[j].output_payload[1].output_docx_path = jobs[j].output_docx_path
               /\ HasLine(ChatOf(j).messages, Message("assistant", text))
               /\ Ended(j) =>
                     /\ read_entry(entries, j) # None
                     /\ read_entry(entries, j)[1].result # None
                     /\ read_entry(entries, j)[1].result[1].text = text

(* C17: for every job the run issues the external call (llm_client.chat    *)
(* or agent.run) at most once; after a failure it issues no call, goes     *)
(* back to no earlier step, and the job is launched at most once.          *)

HasFailed(j) == jobs[j].status = "failed" \/ tasks[j].exc # None

C17_NoRetry ==
    [][\A j \in DOMAIN tasks :
          /\ tasks'[j].calls <= 1
          /\ tasks'[j].calls >= tasks[j].calls
          /\ tasks'[j].pc = "scheduled" => tasks[j].pc \in {"none", "scheduled"}
          /\ HasFailed(j) =>
                /\ tasks'[j].calls = tasks[j].calls
                /\ tasks'[j].pc \in {"mirror_failed", "done", "raised"}
                /\ jobs'[j].status = jobs[j].status]_vars

C17_Witness ==
    \E j \in DOMAIN tasks :
        /\ tasks[j].pc = "done"
        /\ jobs[j].status = "failed"
        /\ tasks[j].calls = 1

(* C18: jobs run independently: while the external call of one job is in  *)
(* flight, and even if it never returns, every other launched job whose    *)
(* own calls are answered reaches a terminal status; a write to the store  *)
(* by one job is never held up by another job.                             *)

InFlight(j) == j \in DOMAIN tasks /\ tasks[j].pc \in {"llm", "agent"}

Launched(j) == j \in DOMAIN tasks /\ tasks[j].pc # "none"

C18_OthersFinish ==
    (Launched(Answered) /\ \E j \in AllJobs \ {Answered} : InFlight(j))
        ~> (Answered \in DOMAIN jobs /\ jobs[Answered].status \in Terminal)

(* C19: no reader sees a half-applied update of a job: the stored job and  *)
(* every answer of GET /jobs/{id} show a job as created, or with all the   *)
(* fields of the one update_job call of its run (completed with the log    *)
(* line, result_message and output_payload; failed with the log line and   *)
(* the error), never with some of them.                                    *)

AsCreated(job) ==
    job = NewJob(job.chat_id, job.prompt, job.metadata)

WhollyCompleted(job) ==
    /\ job.status = "completed"
    /\ job.logs \in {<<"Normal chat completed">>, <<"Agent job completed">>}
    /\ job.result_message # None
    /\ job.output_payload # None
    /\ job.output_payload[1].text = job.result_message[1]
    /\ job.logs = <<"Agent job completed">> =>
          job.output_payload[1].output_docx_path = job.output_docx_path
    /\ job.logs = <<"Normal chat completed">> => job.output_docx_path = None
    /\ job.error = None

WhollyFailed(job) ==
    /\ job.status = "failed"
    /\ job.error # None
    /\ job.logs = <<"Job failed: " \o job.error[1]>>
    /\ job.result_message = None
    /\ job.output_docx_path = None
    /\ job.output_payload = None

Whole(job) == AsCreated(job) \/ WhollyCompleted(job) \/ WhollyFailed(job)

IsStatusReply(l) == l # None /\ l[1].request = "get_job_status" /\ l[1].code = 200

C19_NoHalfUpdate ==
    /\ \A j \in DOMAIN jobs : Whole(jobs[j])
    /\ IsStatusReply(last) =>
          \E job \in {jobs[j] : j \in DOMAIN jobs} \cup
                     {NewJob(jobs[j].chat_id, jobs[j].prompt, jobs[j].metadata) : j \in DOMAIN jobs} :
              /\ Whole(job)
              /\ last[1].body = Some(JobResponse(last[1].job_id, job))

C19_Witness ==
    /\ IsStatusReply(last)
    /\ last[1].body[1].status = "completed"
    /\ last[1].body[1].result_message # None

(* C20: every step of a stream (the response started, a poll, the 404, the *)
(* close) and its cancellation leave the chats, the stored jobs and the    *)
(* job manager entries unchanged and hold nothing a task waits for: after  *)
(* the step the loop is free and each task is at the step where it was,    *)
(* with the same steps enabled.                                            *)

RunStep(j) ==
    run_job_start(j) \/ run_job_dispatch(j) \/ external_answer(j) \/ run_job_mirror(j)

NormalsOf(ns, c, pcs) == {n \in DOMAIN ns : ns[n].chat_id = c /\ ns[n].pc \in pcs}

\* each answered direct chat of a chat has its user message in the chat's
\* messages, followed at once by its reply
PairedMessages(cs, ns, c) ==
    LET ms == cs[c].messages
    IN \A n \in NormalsOf(ns, c, {"done"}) :
          \E i \in DOMAIN ms :
              /\ i + 1 \in DOMAIN ms
              /\ ms[i] = Message("user", ns[n].prompt)
              /\ ms[i + 1] = Message("assistant", ns[n].reply[1])

C21_NormalChatPair ==
    [][/\ \A c \in DOMAIN chats :
             LET ms == chats[c].messages
             IN /\ Len(chats'[c].messages) >= Len(ms)
                /\ SubSeq(chats'[c].messages, 1, Len(ms)) = ms
                /\ PairedMessages(chats', normals', c)
       /\ \A n \in DOMAIN normals' :
             IF n \in DOMAIN normals /\ normals[n].pc = "llm" /\ normals'[n].pc = "done"
             THEN chats' = [chats EXCEPT ![normals[n].chat_id].messages =
                               @ \o <<Message("user", normals[n].prompt),
                                      Message("assistant", normals'[n].reply[1])>>]
             ELSE IF n \notin DOMAIN normals \/ normals'[n] # normals[n]
             THEN chats' = chats
             ELSE TRUE]_vars

\* two direct chats and a job were in flight together on an empty chat; the
\* job's reply was appended between the two pairs
C21_Witness ==
    \E c \in DOMAIN chats :
        LET ms == chats[c].messages
        IN /\ Cardinality(NormalsOf(normals, c, {"done"})) = 2
           /\ \A n \in NormalsOf(normals, c, {"done"}) : Len(normals[n].sent) = 1
           /\ normals[1].reply # normals[2].reply
           /\ \E j \in JobsOf(c) : jobs[j].status = "completed" /\ Len(tasks[j].sent) = 1
           /\ Len(ms) = 5
           /\ ms[1].role = "user" /\ ms[3].role = "assistant" /\ ms[4].role = "user"

====
